---- MODULE Spec2Model ----
(***************************************************************************)
(* Model of the Alpha Vantage client of DSTrade: the transport layer       *)
(* (AlphaVantageAPIHandler._send_request), the generated endpoint          *)
(* marshaling methods and the key obfuscation helpers.                     *)
(*                                                                         *)
(* A Python string is a sequence of atoms (each atom a TLA+ string that    *)
(* never is a concatenation of other atoms), so that string equality,      *)
(* concatenation, join, split and slicing are modelled by what they do.    *)
(* API keys are sequences of one-character atoms.  Text the claims do not  *)
(* read (the payload size, the text of a caught exception) is one atom,    *)
(* "#size" or "#exception".                                                *)
(***************************************************************************)
EXTENDS Integers, Sequences, FiniteSets, TLC

\* ------------------------------------------------------------------ bounds
MaxCalls == 1      \* calls made on one client in one behaviour
MaxTime == 1       \* the millisecond clock reads 0..MaxTime
MaxKeyLen == 4     \* longest API key of the obfuscation specification
MaxRows == 2       \* most rows of a time-series payload

\* ------------------------------------------------------- python primitives
Min(a, b) == IF a <= b THEN a ELSE b
Max(a, b) == IF a >= b THEN a ELSE b

\* s[:n]
PyPrefix(s, n) == SubSeq(s, 1, Min(n, Len(s)))

\* s[-n:]
PySuffix(s, n) == SubSeq(s, Max(1, Len(s) - n + 1), Len(s))

\* sep.join(parts)
RECURSIVE PyJoin(_, _)
PyJoin(sep, parts) ==
    IF parts = <<>> THEN <<>>
    ELSE IF Len(parts) = 1 THEN parts[1]
    ELSE parts[1] \o sep \o PyJoin(sep, Tail(parts))

\* s.split(pat)[0]: the part of s before the first occurrence of pat
PySplitFirst(s, pat) ==
    LET hits == {i \in 1..(Len(s) - Len(pat) + 1) : SubSeq(s, i, i + Len(pat) - 1) = pat}
    IN  IF hits = {} THEN s
        ELSE SubSeq(s, 1, (CHOOSE i \in hits : \A j \in hits : i <= j) - 1)

\* x in list
PyIn(x, list) == \E i \in 1..Len(list) : list[i] = x

\* s.split(a) for a one-atom separator a
RECURSIVE SplitAt(_, _)
SplitAt(s, a) ==
    LET hits == {i \in 1..Len(s) : s[i] = a} IN
    IF hits = {} THEN <<s>>
    ELSE LET i == CHOOSE h \in hits : \A g \in hits : h <= g
         IN  <<SubSeq(s, 1, i - 1)>> \o SplitAt(SubSeq(s, i + 1, Len(s)), a)

\* The value None where a string is expected, distinct from every string, and
\* where a list of strings is expected, distinct from every list.
None == <<"#None">>
NoneList == <<None>>

\* ------------------------------------------------------------ obfuscation
demo == <<"d", "e", "m", "o">>

\* A variant that obfuscates the demo key like any other key.
obfuscate_api_key_no_demo(key) ==
    PyPrefix(key, 2) \o <<".", ".", ".">> \o PySuffix(key, 2)

obfuscate_api_key(key) ==
    IF key = demo THEN key
    ELSE PyPrefix(key, 2) \o <<".", ".", ".">> \o PySuffix(key, 2)

obfuscate_request_url(url, key) ==
    PySplitFirst(url, <<"&", "apikey=">>) \o <<"&", "apikey=">> \o obfuscate_api_key(key)

\* f"AlphaVantageAPIHandler(api_key={obfuscate_api_key(self.api_key)})"
Repr(key) == <<"AlphaVantageAPIHandler(api_key=">> \o obfuscate_api_key(key) \o <<")">>

\* ------------------------------------------------------------------ state
VARIABLES
    api_key,        \* self.api_key
    url_base,       \* self.url_base
    url_request,    \* self.url_request
    pc,             \* position of the call in progress: "idle", "get", "json", "save", "classify", "done"
    call,           \* the endpoint method called and the values the caller passed
    function,       \* _send_request's parameter function
    request_args,   \* _send_request's parameter request_args (after the None default)
    save_result,    \* _send_request's parameter save_result
    request_url,    \* the local request_url
    requested,      \* the URLs handed to requests.get during the call, in order
    response,       \* what requests.get returned
    response_data,  \* response.json()
    wrote,          \* the archive paths written during the call, in order
    outcome,        \* how the call ended: returned None, returned data or raised
    log,            \* the records the logger emitted since construction or call entry
    files,          \* saved_responses/: path -> content
    now,            \* the last reading of the millisecond UTC clock
    calls,          \* calls completed on this client
    handler_call,   \* the shaping-layer method called and the values the caller passed
    api_answer,     \* what the endpoint call of the shaping method answers when it is made
    handler_result, \* how the shaping method ended, the methods it called, whether it normalized
    th_pc,          \* per pool thread: the position of its call, as pc
    th_call,        \* per pool thread: <<function, request_args, save_result>> of its call
    th_url,         \* per pool thread: the local request_url
    th_response,    \* per pool thread: what requests.get returned to it
    th_data,        \* per pool thread: the local response_data
    th_wrote,       \* per pool thread: the archive paths it wrote
    th_outcome      \* per pool thread: how its call ended (the result of its future)

vars == <<api_key, url_base, url_request, pc, call, function, request_args, save_result,
          request_url, requested, response, response_data, wrote, outcome, log, files,
          now, calls, handler_call, api_answer, handler_result,
          th_pc, th_call, th_url, th_response, th_data, th_wrote, th_outcome>>

client == <<api_key, url_base, url_request>>
locals == <<call, function, request_args, save_result, request_url, requested, response,
            response_data, wrote, outcome, log>>
pool == <<th_pc, th_call, th_url, th_response, th_data, th_wrote, th_outcome>>
layers == <<handler_call, api_answer, handler_result, pool>>

\* --------------------------------------------------------------- outcomes
Pending == [kind |-> "pending", exc |-> "", value |-> <<>>]
ReturnNone == [kind |-> "None", exc |-> "", value |-> <<>>]
ReturnData(d) == [kind |-> "data", exc |-> "", value |-> d]
Raise(e) == [kind |-> "raise", exc |-> e, value |-> <<>>]

NoCall == [method |-> "", required |-> <<>>, optional |-> <<>>]
NoResponse == [received |-> FALSE, is_json |-> FALSE, data |-> <<>>]

LogRecord(level, msg) == [level |-> level, msg |-> msg]

\* No shaping-layer method is running.
NoHandlerCall == [method |-> "", args |-> <<>>]
NoHandlerResult == [out |-> Pending, called |-> <<>>, normalized |-> FALSE]

\* The threads of the pool the caller runs its calls in.
NumThreads == 2
Threads == 1..NumThreads

LayersIdle ==
    /\ handler_call = NoHandlerCall
    /\ api_answer = Pending
    /\ handler_result = NoHandlerResult
    /\ th_pc = [t \in Threads |-> "idle"]
    /\ th_call = [t \in Threads |-> <<>>]
    /\ th_url = [t \in Threads |-> <<>>]
    /\ th_response = [t \in Threads |-> NoResponse]
    /\ th_data = [t \in Threads |-> <<>>]
    /\ th_wrote = [t \in Threads |-> <<>>]
    /\ th_outcome = [t \in Threads |-> Pending]

\* ------------------------------------------------------------- the vendor
\* What the vendor can answer: JSON objects (key -> value) and a body that is no JSON.
InformationOnly == [received |-> TRUE, is_json |-> TRUE, data |-> ("Information" :> <<"rate limit">>)]
ErrorOnly == [received |-> TRUE, is_json |-> TRUE, data |-> ("Error Message" :> <<"invalid call">>)]
InformationAndMore ==
    [received |-> TRUE, is_json |-> TRUE,
     data |-> ("Information" :> <<"rate limit">>) @@ ("Meta Data" :> <<"meta">>)]
ErrorAndMore ==
    [received |-> TRUE, is_json |-> TRUE,
     data |-> ("Error Message" :> <<"invalid call">>) @@ ("Meta Data" :> <<"meta">>)]
SuccessBody ==
    [received |-> TRUE, is_json |-> TRUE,
     data |-> ("Meta Data" :> <<"meta">>) @@ ("Time Series (Daily)" :> <<"series">>)]
NotJson == [received |-> TRUE, is_json |-> FALSE, data |-> <<>>]

Responses == {InformationOnly, ErrorOnly, InformationAndMore, ErrorAndMore, SuccessBody, NotJson}

\* ------------------------------------------------------------ the callers
Keys == {demo, <<"k", "e", "y", "9", "1">>}
Symbols == {<<"IBM">>, <<"AAPL">>}
OutputSizes == {None, <<"compact">>}
DataTypes == {None, <<"json">>, <<"csv">>}

\* ------------------------------------------------------------ __init__
Init ==
    /\ api_key \in Keys
    /\ url_base = <<"https://www.alphavantage.co/">>
    /\ url_request = url_base \o <<"query?">>
    /\ pc = "idle"
    /\ call = NoCall
    /\ function = <<>>
    /\ request_args = <<>>
    /\ save_result = FALSE
    /\ request_url = <<>>
    /\ requested = <<>>
    /\ response = NoResponse
    /\ response_data = <<>>
    /\ wrote = <<>>
    /\ outcome = Pending
    /\ log = <<LogRecord("DEBUG", <<"Created ">> \o Repr(api_key))>>
    /\ files = <<>>
    /\ now = 0
    /\ calls = 0
    /\ LayersIdle

\* ------------------------------------------------------ _send_request
\* The literal 'datatype="csv"' the transport looks for.
CsvFragment == <<"datatype", "=", "\"", "csv", "\"">>

\* A variant that puts the apikey fragment before the caller's fragments.
BuildUrlKeyFirst(fn, args, key) ==
    url_request \o PyJoin(<<"&">>, <<(<<"function=">> \o fn)>> \o <<(<<"apikey=">> \o key)>> \o args)

\* request_url = self.url_request + "&".join([f"function={function}"] + request_args
\*                                            + [f"apikey={self.api_key}"])
BuildUrl(fn, args, key) ==
    url_request \o PyJoin(<<"&">>, <<(<<"function=">> \o fn)>> \o args \o <<(<<"apikey=">> \o key)>>)

\* A variant that builds the URL in place, in the client's url_request.
SendRequestEntryExtendsUrlRequest(fn, args, sr) ==
    LET ra == IF args = NoneList THEN <<>> ELSE args IN
    /\ function' = fn
    /\ request_args' = ra
    /\ save_result' = sr
    /\ requested' = <<>>
    /\ response' = NoResponse
    /\ response_data' = <<>>
    /\ wrote' = <<>>
    /\ log' = <<>>
    /\ IF PyIn(CsvFragment, ra)
       THEN /\ outcome' = Raise("NotImplementedError")
            /\ request_url' = <<>>
            /\ url_request' = url_request
            /\ pc' = "done"
       ELSE /\ outcome' = Pending
            /\ request_url' = BuildUrl(fn, ra, api_key)
            /\ url_request' = BuildUrl(fn, ra, api_key)
            /\ pc' = "get"
    /\ UNCHANGED <<api_key, url_base, layers, files, now, calls>>

\* Entry of _send_request up to the GET: the None default, the csv guard, the URL.
SendRequestEntry(fn, args, sr) ==
    LET ra == IF args = NoneList THEN <<>> ELSE args IN
    /\ function' = fn
    /\ request_args' = ra
    /\ save_result' = sr
    /\ requested' = <<>>
    /\ response' = NoResponse
    /\ response_data' = <<>>
    /\ wrote' = <<>>
    /\ log' = <<>>
    /\ IF PyIn(CsvFragment, ra)
       THEN /\ outcome' = Raise("NotImplementedError")
            /\ request_url' = <<>>
            /\ pc' = "done"
       ELSE /\ outcome' = Pending
            /\ request_url' = BuildUrl(fn, ra, api_key)
            /\ pc' = "get"
    /\ UNCHANGED <<client, layers, files, now, calls>>

\* A variant that lets the exception of requests.get escape.
SendRequestGetReraises ==
    /\ pc = "get"
    /\ requested' = Append(requested, request_url)
    /\ log' = Append(log, LogRecord("ERROR", <<"Request got generic error '", "#exception", "'">>))
    /\ outcome' = Raise("ConnectionError")
    /\ pc' = "done"
    /\ UNCHANGED <<client, layers, call, function, request_args, save_result, request_url, response,
                   response_data, wrote, files, now, calls>>

\* requests.get(request_url) raises: logged as an error, the call returns None.
SendRequestGetFails ==
    /\ pc = "get"
    /\ requested' = Append(requested, request_url)
    /\ log' = Append(log, LogRecord("ERROR", <<"Request got generic error '", "#exception", "'">>))
    /\ outcome' = ReturnNone
    /\ pc' = "done"
    /\ UNCHANGED <<client, layers, call, function, request_args, save_result, request_url, response,
                   response_data, wrote, files, now, calls>>

\* requests.get(request_url) returns a response; its payload size is logged.
SendRequestGet ==
    /\ pc = "get"
    /\ \E r \in Responses : response' = r
    /\ requested' = Append(requested, request_url)
    /\ log' = Append(log, LogRecord("DEBUG", <<"'">> \o function \o <<"' Payload size: ", "#size", ".">>))
    /\ pc' = "json"
    /\ UNCHANGED <<client, layers, call, function, request_args, save_result, request_url,
                   response_data, wrote, outcome, files, now, calls>>

\* A variant that archives whatever save_result is.
PcAfterJsonAlwaysSave(sr) == "save"

\* if save_result: the archive write comes next, else the classification.
PcAfterJson(sr) == IF sr THEN "save" ELSE "classify"

\* response_data = response.json(), outside the try block: a body that is no JSON raises.
SendRequestJson ==
    /\ pc = "json"
    /\ IF response.is_json
       THEN /\ response_data' = response.data
            /\ outcome' = outcome
            /\ pc' = PcAfterJson(save_result)
       ELSE /\ response_data' = response_data
            /\ outcome' = Raise("JSONDecodeError")
            /\ pc' = "done"
    /\ UNCHANGED <<client, layers, call, function, request_args, save_result, request_url, requested,
                   response, wrote, log, files, now, calls>>

\* f"{get_utc_timestamp_ms()}" + "__" + "&".join([function] + request_args)
ArchiveName(ts, fn, args) == <<ToString(ts), "__">> \o PyJoin(<<"&">>, <<fn>> \o args)

\* f"saved_responses/{filename}.json"
ArchivePath(filename) == <<"saved_responses/">> \o filename \o <<".json">>

\* if save_result: open(path, "w") and json.dump succeed.
SendRequestSave ==
    /\ pc = "save"
    /\ \E ts \in now..MaxTime :
          LET path == ArchivePath(ArchiveName(ts, function, request_args)) IN
          /\ now' = ts
          /\ files' = (path :> response_data) @@ files
          /\ wrote' = Append(wrote, path)
    /\ pc' = "classify"
    /\ UNCHANGED <<client, layers, call, function, request_args, save_result, request_url, requested,
                   response, response_data, outcome, log, calls>>

\* if save_result: open(path, "w") raises (no saved_responses directory, no permission,
\* a name the file system rejects); nothing catches it.
SendRequestSaveFails ==
    /\ pc = "save"
    /\ \E ts \in now..MaxTime : now' = ts
    /\ outcome' = Raise("OSError")
    /\ pc' = "done"
    /\ UNCHANGED <<client, layers, call, function, request_args, save_result, request_url, requested,
                   response, response_data, wrote, log, files, calls>>

\* The classification of the envelope: "Information", "Error Message", else success.
\* Each soft-error branch asserts that its key is the only key.
ClassifyOutcome(d) ==
    IF "Information" \in DOMAIN d
    THEN IF Cardinality(DOMAIN d) = 1 THEN ReturnNone ELSE Raise("AssertionError")
    ELSE IF "Error Message" \in DOMAIN d
    THEN IF Cardinality(DOMAIN d) = 1 THEN ReturnNone ELSE Raise("AssertionError")
    ELSE ReturnData(d)

\* What the classification logs.
ClassifyLog(d, url, key) ==
    IF "Information" \in DOMAIN d
    THEN IF Cardinality(DOMAIN d) = 1
         THEN <<LogRecord("WARNING", <<"Got Information as reponse: '">> \o d["Information"] \o <<"'">>)>>
         ELSE <<>>
    ELSE IF "Error Message" \in DOMAIN d
    THEN IF Cardinality(DOMAIN d) = 1
         THEN <<LogRecord("WARNING", <<"Got the following error response: ">> \o d["Error Message"] \o <<".">>)>>
         ELSE <<>>
    ELSE <<LogRecord("DEBUG", <<"Successfuly sent request '">> \o obfuscate_request_url(url, key) \o <<"'">>)>>

\* A variant that sends the request again after a soft error.
PcRetryAfterSoftError(o) == IF o = ReturnNone THEN "get" ELSE "done"

\* Where the call goes once the envelope is classified: every branch returns or raises.
PcAfterClassify(o) == "done"

SendRequestClassify ==
    /\ pc = "classify"
    /\ outcome' = ClassifyOutcome(response_data)
    /\ log' = log \o ClassifyLog(response_data, request_url, api_key)
    /\ pc' = PcAfterClassify(ClassifyOutcome(response_data))
    /\ UNCHANGED <<client, layers, call, function, request_args, save_result, request_url, requested,
                   response, response_data, wrote, files, now, calls>>

\* The call is over: its locals are discarded.
SendRequestReturn ==
    /\ pc = "done"
    /\ pc' = "idle"
    /\ calls' = calls + 1
    /\ call' = NoCall
    /\ function' = <<>>
    /\ request_args' = <<>>
    /\ save_result' = FALSE
    /\ request_url' = <<>>
    /\ requested' = <<>>
    /\ response' = NoResponse
    /\ response_data' = <<>>
    /\ wrote' = <<>>
    /\ outcome' = Pending
    /\ log' = <<>>
    /\ UNCHANGED <<client, layers, files, now>>

\* --------------------------------------------------- endpoint marshaling
\* A parameter of an endpoint method: its name and the value the caller passed.
Param(name, value) == <<name, value>>
PName(p) == p[1]
PValue(p) == p[2]

\* A required parameter: the generated code holds the plain literal "name=name".
ReqFragment(name, value) == <<name, "=", name>>

\* A variant without the "is not None" test: an absent parameter is sent as "name=None".
OptFragmentAlways(name, value) ==
    IF value # None THEN <<(<<name, "=">> \o value)>> ELSE <<<<name, "=", "None">>>>

\* An optional parameter: ([f"name={name}"] if name is not None else [])
OptFragment(name, value) == IF value # None THEN <<(<<name, "=">> \o value)>> ELSE <<>>

RECURSIVE ReqFragments(_)
ReqFragments(required) ==
    IF required = <<>> THEN <<>>
    ELSE <<ReqFragment(PName(required[1]), PValue(required[1]))>> \o ReqFragments(Tail(required))

RECURSIVE OptFragments(_)
OptFragments(optional) ==
    IF optional = <<>> THEN <<>>
    ELSE OptFragment(PName(optional[1]), PValue(optional[1])) \o OptFragments(Tail(optional))

\* return self._send_request(function=..., request_args=[...] + ..., **kwargs)
EndpointCall(method, fn, required, optional, sr) ==
    /\ pc = "idle"
    /\ calls < MaxCalls
    /\ call' = [method |-> method, required |-> required, optional |-> optional]
    /\ SendRequestEntry(fn, ReqFragments(required) \o OptFragments(optional), sr)

get_time_series_daily(symbol, outputsize, datatype, sr) ==
    EndpointCall("get_time_series_daily", <<"TIME_SERIES_DAILY">>,
                 <<Param("symbol", symbol)>>,
                 <<Param("outputsize", outputsize), Param("datatype", datatype)>>, sr)

get_fx_daily(from_symbol, to_symbol, outputsize, datatype, sr) ==
    EndpointCall("get_fx_daily", <<"FX_DAILY">>,
                 <<Param("from_symbol", from_symbol), Param("to_symbol", to_symbol)>>,
                 <<Param("outputsize", outputsize), Param("datatype", datatype)>>, sr)

get_time_series_intraday(symbol, interval, o, sr) ==
    EndpointCall("get_time_series_intraday", <<"TIME_SERIES_INTRADAY">>,
                 <<Param("symbol", symbol), Param("interval", interval)>>,
                 <<Param("adjusted", o.adjusted), Param("extended_hours", o.extended_hours),
                   Param("month", o.month), Param("outputsize", o.outputsize),
                   Param("datatype", o.datatype)>>, sr)

\* The optional arguments the callers of get_time_series_intraday pass.
IntradayOpts(a, e, m, o, d) ==
    [adjusted |-> a, extended_hours |-> e, month |-> m, outputsize |-> o, datatype |-> d]
IntradayOptions ==
    {IntradayOpts(None, None, None, None, None),
     IntradayOpts(<<"false">>, None, None, None, None),
     IntradayOpts(None, <<"false">>, None, None, None),
     IntradayOpts(None, None, <<"2009-01">>, <<"full">>, None),
     IntradayOpts(None, None, None, None, <<"csv">>),
     IntradayOpts(<<"false">>, <<"false">>, <<"2009-01">>, <<"full">>, <<"json">>)}

\* A caller that uses _send_request itself, with any argument list.
DirectArgs ==
    {NoneList, <<>>, <<(<<"symbol", "=", "IBM">>)>>, <<CsvFragment>>,
     <<(<<"symbol", "=", "IBM">>), CsvFragment>>}

send_request(fn, args, sr) ==
    /\ pc = "idle"
    /\ calls < MaxCalls
    /\ call' = [method |-> "_send_request", required |-> <<>>, optional |-> <<>>]
    /\ SendRequestEntry(fn, args, sr)

\* str(handler): __str__ returns __repr__().
Str ==
    /\ pc = "idle"
    /\ calls < MaxCalls
    /\ call' = [method |-> "__str__", required |-> <<>>, optional |-> <<>>]
    /\ outcome' = ReturnData(Repr(api_key))
    /\ pc' = "done"
    /\ log' = <<>>
    /\ UNCHANGED <<client, layers, function, request_args, save_result, request_url, requested,
                   response, response_data, wrote, files, now, calls>>

\* ------------------------------------------------------------ the system
Next ==
    \/ \E s \in Symbols, o \in OutputSizes, d \in DataTypes, sr \in BOOLEAN :
          get_time_series_daily(s, o, d, sr)
    \/ \E o \in OutputSizes, d \in DataTypes, sr \in BOOLEAN :
          get_fx_daily(<<"EUR">>, <<"USD">>, o, d, sr)
    \/ \E o \in IntradayOptions, sr \in BOOLEAN :
          get_time_series_intraday(<<"IBM">>, <<"5min">>, o, sr)
    \/ \E a \in DirectArgs, sr \in BOOLEAN : send_request(<<"GLOBAL_QUOTE">>, a, sr)
    \/ Str
    \/ SendRequestGetFails
    \/ SendRequestGet
    \/ SendRequestJson
    \/ SendRequestSave
    \/ SendRequestSaveFails
    \/ SendRequestClassify
    \/ SendRequestReturn

Spec == Init /\ [][Next]_vars

\* The client constructed with any key, and its string form asked for.
KeyAlphabet == {"a", "b", "c"}
AllKeys == {demo} \cup UNION {[1..n -> KeyAlphabet] : n \in 0..MaxKeyLen}

InitKey ==
    /\ api_key \in AllKeys
    /\ url_base = <<"https://www.alphavantage.co/">>
    /\ url_request = url_base \o <<"query?">>
    /\ pc = "idle"
    /\ call = NoCall
    /\ function = <<>>
    /\ request_args = <<>>
    /\ save_result = FALSE
    /\ request_url = <<>>
    /\ requested = <<>>
    /\ response = NoResponse
    /\ response_data = <<>>
    /\ wrote = <<>>
    /\ outcome = Pending
    /\ log = <<LogRecord("DEBUG", <<"Created ">> \o Repr(api_key))>>
    /\ files = <<>>
    /\ now = 0
    /\ calls = 0
    /\ LayersIdle

NextKey == Str \/ SendRequestReturn

SpecKey == InitKey /\ [][NextKey]_vars

\* ============================================== shaping layer (av_integration)
\* A timestamp key and a field value of a payload are strings of one-character atoms.
\* A cell of a table is a string as the vendor sent it, a 32-bit float or NaN.
StrCell(s) == <<"str", s>>
F32Cell(n) == <<"float32", n>>
NaN == <<"nan">>

DigitValue ==
    ("0" :> 0) @@ ("1" :> 1) @@ ("2" :> 2) @@ ("3" :> 3) @@ ("4" :> 4) @@
    ("5" :> 5) @@ ("6" :> 6) @@ ("7" :> 7) @@ ("8" :> 8) @@ ("9" :> 9)

IsNumeral(s) == Len(s) >= 1 /\ \A i \in 1..Len(s) : s[i] \in DOMAIN DigitValue

\* The number a string of digits denotes (the payloads of the model carry whole numbers).
RECURSIVE ParseInt(_)
ParseInt(s) ==
    IF s = <<>> THEN 0
    ELSE 10 * ParseInt(SubSeq(s, 1, Len(s) - 1)) + DigitValue[s[Len(s)]]

\* np.float32(n) for a whole number n >= 0: n itself when it fits the 24-bit significand,
\* else n rounded to 24 significant bits, ties to even.
MantissaBits == 24
Float32(n) ==
    IF n < 2^MantissaBits THEN n
    ELSE LET e == CHOOSE k \in 1..6 : 2^(MantissaBits - 1 + k) <= n /\ n < 2^(MantissaBits + k)
             q == n \div 2^e
             r == n % 2^e
             half == 2^(e - 1)
         IN  IF r > half \/ (r = half /\ q % 2 = 1) THEN (q + 1) * 2^e ELSE q * 2^e

\* pd.to_datetime(key, format="mixed") for the two forms the vendor uses, "YYYY-MM-DD" and
\* "YYYY-MM-DD hh:mm:ss"; any other string fails to parse.
IsDate(s) ==
    LET p == SplitAt(s, "-") IN
    /\ Len(p) = 3
    /\ \A i \in 1..3 : IsNumeral(p[i])
    /\ Len(p[1]) = 4
    /\ ParseInt(p[2]) \in 1..12
    /\ ParseInt(p[3]) \in 1..31

IsTime(s) ==
    LET p == SplitAt(s, ":") IN
    /\ Len(p) = 3
    /\ \A i \in 1..3 : IsNumeral(p[i])
    /\ ParseInt(p[1]) \in 0..23
    /\ ParseInt(p[2]) \in 0..59
    /\ ParseInt(p[3]) \in 0..59

ParsesAsTimestamp(key) ==
    LET p == SplitAt(key, " ") IN
    \/ Len(p) = 1 /\ IsDate(p[1])
    \/ Len(p) = 2 /\ IsDate(p[1]) /\ IsTime(p[2])

\* The instant a key denotes: <<year, month, day, hour, minute, second>>.
Timestamp(key) ==
    LET p == SplitAt(key, " ")
        d == SplitAt(p[1], "-")
        t == IF Len(p) = 2 THEN SplitAt(p[2], ":") ELSE <<(<<"0">>), (<<"0">>), (<<"0">>)>>
    IN  <<ParseInt(d[1]), ParseInt(d[2]), ParseInt(d[3]),
          ParseInt(t[1]), ParseInt(t[2]), ParseInt(t[3])>>

\* a < b for two instants
TsLess(a, b) ==
    \E i \in 1..6 : a[i] < b[i] /\ \A j \in 1..(i - 1) : a[j] = b[j]

\* The items of s in their order of first appearance.
RECURSIVE Dedupe(_)
Dedupe(s) ==
    IF s = <<>> THEN <<>>
    ELSE LET front == Dedupe(SubSeq(s, 1, Len(s) - 1))
             x == s[Len(s)]
         IN  IF PyIn(x, front) THEN front ELSE Append(front, x)

\* The labels of all rows of a payload, row after row.
RECURSIVE AllLabels(_)
AllLabels(candle_data) ==
    IF candle_data = <<>> THEN <<>>
    ELSE LET row == candle_data[1][2]
         IN  [j \in 1..Len(row) |-> row[j][1]] \o AllLabels(Tail(candle_data))

\* row.get(label, NaN) for a row of <<label, value>> pairs
Lookup(row, label) ==
    IF \E j \in 1..Len(row) : row[j][1] = label
    THEN StrCell(row[CHOOSE j \in 1..Len(row) : row[j][1] = label][2])
    ELSE NaN

\* s without its k-th item
WithoutAt(s, k) == SubSeq(s, 1, k - 1) \o SubSeq(s, k + 1, Len(s))

\* pd.DataFrame(columns=["Open", "High", "Low", "Close"]): no rows, an object index, object columns
EmptyFrame ==
    [index |-> <<>>, index_dtype |-> "object",
     columns |-> <<"Open", "High", "Low", "Close">>,
     dtypes |-> <<"object", "object", "object", "object">>,
     cells |-> <<>>]

\* pd.DataFrame.from_dict(candle_data, orient="index"): one row per outer key in the order
\* of the payload, one column per label in the order of first appearance, strings kept.
from_dict(candle_data) ==
    LET cols == Dedupe(AllLabels(candle_data)) IN
    [index |-> [i \in 1..Len(candle_data) |-> StrCell(candle_data[i][1])],
     index_dtype |-> "object",
     columns |-> cols,
     dtypes |-> [c \in 1..Len(cols) |-> "object"],
     cells |-> [i \in 1..Len(candle_data) |->
                   [c \in 1..Len(cols) |-> Lookup(candle_data[i][2], cols[c])]]]

\* df.drop(columns=label, inplace=True)
drop(df, label) ==
    LET k == CHOOSE c \in 1..Len(df.columns) : df.columns[c] = label IN
    [df EXCEPT !.columns = WithoutAt(@, k),
               !.dtypes = WithoutAt(@, k),
               !.cells = [i \in 1..Len(@) |-> WithoutAt(@[i], k)]]

\* A variant that keeps the volume column.
KeepVolume(df) == df

\* if "5. volume" in df: df.drop(columns="5. volume", inplace=True)
DropVolume(df) == IF PyIn("5. volume", df.columns) THEN drop(df, "5. volume") ELSE df

\* A variant that turns a key that fails to parse into a missing instant instead of raising.
to_datetime_coerce(df) ==
    ReturnData([df EXCEPT !.index = [i \in 1..Len(@) |->
                                        IF ParsesAsTimestamp(@[i][2])
                                        THEN <<"datetime64", Timestamp(@[i][2])>>
                                        ELSE <<"NaT">>],
                          !.index_dtype = "datetime64"])

\* df.index = pd.to_datetime(df.index, format="mixed"): raises when a key fails to parse.
to_datetime(df) ==
    IF \A i \in 1..Len(df.index) : ParsesAsTimestamp(df.index[i][2])
    THEN ReturnData([df EXCEPT !.index = [i \in 1..Len(@) |-> <<"datetime64", Timestamp(@[i][2])>>],
                               !.index_dtype = "datetime64"])
    ELSE Raise("ValueError")

\* A variant with the canonical names of High and Low exchanged.
OhlcNamesSwapped == <<"Open", "Low", "High", "Close">>

OhlcNames == <<"Open", "High", "Low", "Close">>

\* ohlc_fmt when the caller passes None
ohlc_fmt == <<"1. open", "2. high", "3. low", "4. close">>

\* {old: new for old, new in zip(ohlc_fmt, ["Open", "High", "Low", "Close"])}
renamer_map ==
    [old \in {ohlc_fmt[i] : i \in 1..Len(ohlc_fmt)} |->
        OhlcNames[CHOOSE i \in 1..Len(ohlc_fmt) : ohlc_fmt[i] = old]]

\* A variant that also renames a canonical name back to the vendor's label.
RenameColumnSwap(map, c) ==
    IF c \in DOMAIN map THEN map[c]
    ELSE IF \E old \in DOMAIN map : map[old] = c THEN CHOOSE old \in DOMAIN map : map[old] = c
    ELSE c

\* The new name of column c: a column the map does not name keeps its name.
RenameColumn(map, c) == IF c \in DOMAIN map THEN map[c] ELSE c

\* df.rename(columns=map, inplace=True)
rename(df, map) == [df EXCEPT !.columns = [c \in 1..Len(@) |-> RenameColumn(map, @[c])]]

\* Whether np.float32 accepts the cell, and what it makes of it.
Castable(cell) == cell[1] \in {"nan", "float32"} \/ IsNumeral(cell[2])
Cast(cell) ==
    IF cell[1] = "nan" THEN NaN
    ELSE IF cell[1] = "float32" THEN F32Cell(Float32(cell[2]))
    ELSE F32Cell(Float32(ParseInt(cell[2])))

\* A variant that turns a value that cannot be cast into NaN instead of raising.
astype_coerce(df) ==
    ReturnData([df EXCEPT !.cells = [i \in 1..Len(@) |-> [c \in 1..Len(@[i]) |->
                                        IF Castable(@[i][c]) THEN Cast(@[i][c]) ELSE NaN]],
                          !.dtypes = [c \in 1..Len(@) |-> "float32"]])

\* df = df.astype(np.float32): every column is cast; one value that cannot be cast raises.
astype(df) ==
    IF \A i \in 1..Len(df.cells) : \A c \in 1..Len(df.columns) : Castable(df.cells[i][c])
    THEN ReturnData([df EXCEPT !.cells = [i \in 1..Len(@) |-> [c \in 1..Len(@[i]) |-> Cast(@[i][c])]],
                               !.dtypes = [c \in 1..Len(@) |-> "float32"]])
    ELSE Raise("ValueError")

\* AlphaVantageHandler._candle_data_to_df(candle_data) with ohlc_fmt left None
candle_data_to_df(candle_data) ==
    IF Len(candle_data) = 0 THEN ReturnData(EmptyFrame)
    ELSE LET dated == to_datetime(DropVolume(from_dict(candle_data))) IN
         IF dated.kind = "raise" THEN dated
         ELSE astype(rename(dated.value, renamer_map))

\* ------------------------------------------------------------ get_candles
\* class AV_CANDLE_TF(StrEnum): member name -> value
AV_CANDLE_TF ==
    [MIN |-> "1min", MIN5 |-> "5min", MIN15 |-> "15min", MIN30 |-> "30min",
     HOUR |-> "60min", DAY |-> "1day", WEEKLY |-> "1week", MONTHLY |-> "1month"]

\* AV_CANDLE_TF.<name> exists; reading a member the class lacks raises AttributeError.
HasMember(name) == name \in DOMAIN AV_CANDLE_TF
TfValues == {AV_CANDLE_TF[m] : m \in DOMAIN AV_CANDLE_TF}

\* **kwargs: a sequence of <<name, value>> pairs
HasKey(kwargs, name) == \E i \in 1..Len(kwargs) : kwargs[i][1] = name
Get(kwargs, name) == kwargs[CHOOSE i \in 1..Len(kwargs) : kwargs[i][1] = name][2]
Pop(kwargs, name) == SelectSeq(kwargs, LAMBDA kv : kv[1] # name)
Names(kwargs) == {kwargs[i][1] : i \in 1..Len(kwargs)}

\* The named parameters of the endpoint methods the shaping layer calls; what is left in
\* **kwargs goes on to _send_request, which takes save_result only.
EndpointParams ==
    [get_time_series_monthly |-> {"symbol", "datatype"},
     get_time_series_weekly |-> {"symbol", "datatype"},
     get_time_series_daily |-> {"symbol", "outputsize", "datatype"},
     get_time_series_intraday |-> {"symbol", "interval", "adjusted", "extended_hours", "month",
                                   "outputsize", "datatype"},
     get_fx_monthly |-> {"from_symbol", "to_symbol", "datatype"},
     get_fx_weekly |-> {"from_symbol", "to_symbol", "datatype"},
     get_fx_daily |-> {"from_symbol", "to_symbol", "outputsize", "datatype"},
     get_fx_intraday |-> {"from_symbol", "to_symbol", "interval", "outputsize", "datatype"},
     get_digital_currency_monthly |-> {"symbol", "market"},
     get_digital_currency_weekly |-> {"symbol", "market"},
     get_digital_currency_daily |-> {"symbol", "market"},
     get_crypto_intraday |-> {"symbol", "market", "interval", "outputsize", "datatype"}]

\* How a get_candles_* method ended and the endpoint methods it called.
Fetched(out, called) == [out |-> out, called |-> called]

\* data = self._api.<method>(**passed); if data is None: return None;
\* candle_data = data[data_key]
Fetch(method, passed, data_key, answer) ==
    IF \E n \in passed : n \notin EndpointParams[method] \cup {"save_result"}
    THEN Fetched(Raise("TypeError"), <<method>>)
    ELSE IF answer.kind # "data" THEN Fetched(answer, <<method>>)
    ELSE IF data_key \in DOMAIN answer.value
    THEN Fetched(ReturnData(answer.value[data_key]), <<method>>)
    ELSE Fetched(Raise("KeyError"), <<method>>)

\* if ctf == AV_CANDLE_TF.MONTH: ... elif ctf == AV_CANDLE_TF.WEEK: ... elif ctf ==
\* AV_CANDLE_TF.DAY: ... else: ...  Each comparison reads its member first.
ByTimeframe(ctf, monthly, weekly, daily, intraday) ==
    IF ~HasMember("MONTH") THEN Fetched(Raise("AttributeError"), <<>>)
    ELSE IF ctf = AV_CANDLE_TF["MONTH"] THEN monthly
    ELSE IF ~HasMember("WEEK") THEN Fetched(Raise("AttributeError"), <<>>)
    ELSE IF ctf = AV_CANDLE_TF["WEEK"] THEN weekly
    ELSE IF ~HasMember("DAY") THEN Fetched(Raise("AttributeError"), <<>>)
    ELSE IF ctf = AV_CANDLE_TF["DAY"] THEN daily
    ELSE intraday

get_candles_stocks(ctf, symbol, outputsize, kwargs, answer) ==
    ByTimeframe(ctf,
        Fetch("get_time_series_monthly", {"symbol"} \cup Names(kwargs),
              <<"Monthly Time Series">>, answer),
        Fetch("get_time_series_weekly", {"symbol"} \cup Names(kwargs),
              <<"Weekly Time Series">>, answer),
        Fetch("get_time_series_daily", {"symbol", "outputsize"} \cup Names(kwargs),
              <<"Time Series (Daily)">>, answer),
        IF ~HasKey(kwargs, "month") THEN Fetched(Raise("KeyError"), <<>>)
        ELSE Fetch("get_time_series_intraday",
                   {"symbol", "interval", "month", "outputsize"} \cup Names(Pop(kwargs, "month")),
                   <<"Time Series (", ctf, ")">>, answer))

get_candles_forex(ctf, from_symbol, to_symbol, outputsize, kwargs, answer) ==
    ByTimeframe(ctf,
        Fetch("get_fx_monthly", {"from_symbol", "to_symbol"} \cup Names(kwargs),
              <<"Time Series FX (Monthly)">>, answer),
        Fetch("get_fx_weekly", {"from_symbol", "to_symbol"} \cup Names(kwargs),
              <<"Time Series FX (Weekly)">>, answer),
        Fetch("get_fx_daily", {"from_symbol", "to_symbol", "outputsize"} \cup Names(kwargs),
              <<"Time Series FX (Daily)">>, answer),
        Fetch("get_fx_intraday",
              {"from_symbol", "to_symbol", "interval", "outputsize"} \cup Names(kwargs),
              <<"Time Series FX (", ctf, ")">>, answer))

get_candles_crypto(ctf, symbol, market, outputsize, kwargs, answer) ==
    ByTimeframe(ctf,
        Fetch("get_digital_currency_monthly", {"symbol", "market"} \cup Names(kwargs),
              <<"Time Series (Digital Currency Monthly)">>, answer),
        Fetch("get_digital_currency_weekly", {"symbol", "market"} \cup Names(kwargs),
              <<"Time Series (Digital Currency Weekly)">>, answer),
        Fetch("get_digital_currency_daily", {"symbol", "market"} \cup Names(kwargs),
              <<"Time Series (Digital Currency Daily)">>, answer),
        Fetch("get_crypto_intraday",
              {"symbol", "market", "interval", "outputsize"} \cup Names(kwargs),
              <<"Time Series Crypto (", ctf, ")">>, answer))

\* How a shaping method ended, the methods it called in order (the get_candles_* method
\* first, then the endpoint method), whether the normalizer ran.
Ended(out, called, normalized) == [out |-> out, called |-> called, normalized |-> normalized]

\* A variant that looks for the crypto keywords first and for symbol last.
candle_type_crypto_first(kwargs) ==
    IF HasKey(kwargs, "crypto") /\ HasKey(kwargs, "currency") THEN "CRYPTO"
    ELSE IF HasKey(kwargs, "currency_from") /\ HasKey(kwargs, "currency_to") THEN "FOREX"
    ELSE IF HasKey(kwargs, "symbol") THEN "STOCK"
    ELSE "unsupported"

\* if "symbol" in kwargs: ... elif "currency_from" in kwargs and "currency_to" in kwargs: ...
\* elif "crypto" in kwargs and "currency" in kwargs: ... else: raise ValueError
candle_type(kwargs) ==
    IF HasKey(kwargs, "symbol") THEN "STOCK"
    ELSE IF HasKey(kwargs, "currency_from") /\ HasKey(kwargs, "currency_to") THEN "FOREX"
    ELSE IF HasKey(kwargs, "crypto") /\ HasKey(kwargs, "currency") THEN "CRYPTO"
    ELSE "unsupported"

\* The method get_candles hands the call to, per candle type.
CandlesMethod ==
    [STOCK |-> "get_candles_stocks", FOREX |-> "get_candles_forex",
     CRYPTO |-> "get_candles_crypto"]

\* AlphaVantageHandler.get_candles(ctf, outputsize, **kwargs), the endpoint answering answer
get_candles(ctf, outputsize, kwargs, answer) ==
    IF ctf \notin TfValues THEN Ended(Raise("ValueError"), <<>>, FALSE)
    ELSE IF candle_type(kwargs) = "unsupported" THEN Ended(Raise("ValueError"), <<>>, FALSE)
    ELSE LET type == candle_type(kwargs)
             fetched ==
                 IF type = "STOCK"
                 THEN get_candles_stocks(ctf, Get(kwargs, "symbol"), outputsize,
                                         Pop(kwargs, "symbol"), answer)
                 ELSE IF type = "FOREX"
                 THEN get_candles_forex(ctf, Get(kwargs, "currency_from"),
                                        Get(kwargs, "currency_to"), outputsize,
                                        Pop(Pop(kwargs, "currency_from"), "currency_to"), answer)
                 ELSE get_candles_crypto(ctf, Get(kwargs, "crypto"), Get(kwargs, "currency"),
                                         outputsize, Pop(Pop(kwargs, "crypto"), "currency"), answer)
             called == <<CandlesMethod[type]>> \o fetched.called
         IN  IF fetched.out.kind = "raise" THEN Ended(fetched.out, called, FALSE)
             ELSE IF fetched.out.kind = "None" THEN Ended(ReturnNone, called, FALSE)
             ELSE Ended(candle_data_to_df(fetched.out.value), called, TRUE)

\* ------------------------------------------------- the shaping-layer callers
\* Outer keys of a payload: two days, a minute of the first day, a key that is no timestamp.
Key_2024_01_01 == <<"2", "0", "2", "4", "-", "0", "1", "-", "0", "1">>
Key_2024_01_02 == <<"2", "0", "2", "4", "-", "0", "1", "-", "0", "2">>
Key_2024_01_01_1600 == Key_2024_01_01 \o <<" ", "1", "6", ":", "0", "0", ":", "0", "0">>
KeyNoTimestamp == <<"n", "/", "a">>
TimestampKeys == {Key_2024_01_01, Key_2024_01_02, Key_2024_01_01_1600, KeyNoTimestamp}

\* Rows of a payload as the vendor sends them: label -> string.
Row(o, h, l, c) == <<(<<"1. open", o>>), (<<"2. high", h>>), (<<"3. low", l>>), (<<"4. close", c>>)>>
RowWithVolume(o, h, l, c, v) == Row(o, h, l, c) \o <<(<<"5. volume", v>>)>>

Big(last) == <<"1", "6", "7", "7", "7", "2", "1", last>>

FieldRows ==
    {RowWithVolume(<<"2">>, <<"4">>, <<"1">>, <<"3">>, <<"9">>),
     Row(<<"2">>, <<"3">>, <<"1">>, <<"2">>),
     Row(<<"2">>, <<"4">>, <<"1">>, <<"n", "/", "a">>),
     RowWithVolume(<<"2">>, <<"4">>, <<"1">>, <<"3">>, <<"n", "/", "a">>),
     Row(<<"2">>, <<"1">>, <<"3">>, <<"2">>),
     Row(Big("7"), Big("9"), Big("6"), Big("8"))}

\* A payload maps distinct outer keys to rows and keeps the order the vendor sent.
Payloads ==
    {p \in UNION {[1..n -> TimestampKeys \X FieldRows] : n \in 0..MaxRows} :
        \A i, j \in 1..Len(p) : i # j => p[i][1] # p[j][1]}

\* A success envelope: the metadata and the payload under the vendor's data key.
VendorEnvelope(data_key, payload) == (<<"Meta Data">> :> <<>>) @@ (data_key :> payload)

Envelopes ==
    {VendorEnvelope(k, p) :
        k \in {<<"Time Series (Daily)">>, <<"Time Series FX (Daily)">>,
               <<"Time Series (", "5min", ")">>},
        p \in {<<>>, <<(<<Key_2024_01_02, Row(<<"2">>, <<"3">>, <<"1">>, <<"2">>)>>)>>}}

\* What an endpoint call can answer: None, an exception of _send_request, a success envelope.
Answers == {ReturnNone, Raise("JSONDecodeError")} \cup {ReturnData(e) : e \in Envelopes}

CandleTimeframes == TfValues \cup {"2min"}

KwargsChoices ==
    {<<(<<"symbol", "IBM">>)>>,
     <<(<<"symbol", "IBM">>), (<<"month", "2024-01">>)>>,
     <<(<<"currency_from", "EUR">>), (<<"currency_to", "USD">>)>>,
     <<(<<"crypto", "BTC">>), (<<"currency", "USD">>)>>,
     <<(<<"symbol", "IBM">>), (<<"crypto", "BTC">>), (<<"currency", "USD">>)>>,
     <<(<<"currency_from", "EUR">>)>>,
     <<>>}

\* AlphaVantageHandler._candle_data_to_df(candle_data), called on its own
CandleDataToDf(candle_data) ==
    /\ pc = "idle"
    /\ handler_call = NoHandlerCall
    /\ handler_call' = [method |-> "_candle_data_to_df", args |-> <<candle_data>>]
    /\ api_answer' = Pending
    /\ handler_result' = Ended(candle_data_to_df(candle_data), <<>>, TRUE)
    /\ UNCHANGED <<client, locals, pool, pc, files, now, calls>>

\* handler.get_candles(ctf, outputsize, **kwargs)
GetCandles(ctf, outputsize, kwargs, answer) ==
    /\ pc = "idle"
    /\ handler_call = NoHandlerCall
    /\ handler_call' = [method |-> "get_candles", args |-> <<ctf, outputsize, kwargs>>]
    /\ api_answer' = answer
    /\ handler_result' = get_candles(ctf, outputsize, kwargs, answer)
    /\ UNCHANGED <<client, locals, pool, pc, files, now, calls>>

\* ------------------------------------ the old handler (av_integration_old)
\* The parameters send_request declares (both definitions in the class have these).
send_request_params == {"function", "request_args", "save_result"}

OPTIONS_COLUMNS ==
    <<"date", "expiration", "is_call", "strike", "mark", "bid", "ask", "implied_volatility",
      "delta", "gamma", "theta", "vega", "rho", "bid_size", "ask_size", "volume",
      "open_interest", "last">>

float_cols ==
    {"strike", "last", "mark", "bid", "ask", "implied_volatility", "delta", "gamma", "theta",
     "vega", "rho"}
int_cols == {"bid_size", "ask_size", "volume", "open_interest"}
date_cols == {"expiration", "date"}

\* The cell of column col the transformations make of a contract record.
OptionsCell(rec, col) ==
    IF col = "is_call" THEN <<"bool", Lookup(rec, "type") = StrCell(<<"call">>)>>
    ELSE IF col \in date_cols THEN <<"datetime64", Timestamp(Lookup(rec, col)[2])>>
    ELSE IF col \in float_cols THEN F32Cell(Float32(ParseInt(Lookup(rec, col)[2])))
    ELSE <<"int32", ParseInt(Lookup(rec, col)[2])>>

OptionsDtype(col) ==
    IF col = "is_call" THEN "bool"
    ELSE IF col \in date_cols THEN "datetime64"
    ELSE IF col \in float_cols THEN "float32"
    ELSE "int32"

\* Lines 309-330 for records that all carry the same labels: from_records,
\* set_index("contractID"), drop symbol, the date, float and int casts, is_call from type,
\* drop type, the selection of OPTIONS_COLUMNS.
options_to_df(data) ==
    LET labels == {data[i][j][1] : i \in 1..Len(data), j \in 1..Len(data[1])}
        needed == {"contractID", "symbol", "type"} \cup date_cols \cup float_cols \cup int_cols
    IN  IF ~(needed \subseteq labels) THEN Raise("KeyError")
        ELSE IF \E i \in 1..Len(data) :
                   \/ \E c \in date_cols : ~ParsesAsTimestamp(Lookup(data[i], c)[2])
                   \/ \E c \in float_cols \cup int_cols : ~IsNumeral(Lookup(data[i], c)[2])
        THEN Raise("ValueError")
        ELSE ReturnData(
                 [index |-> [i \in 1..Len(data) |-> Lookup(data[i], "contractID")],
                  index_dtype |-> "object",
                  columns |-> OPTIONS_COLUMNS,
                  dtypes |-> [c \in 1..Len(OPTIONS_COLUMNS) |-> OptionsDtype(OPTIONS_COLUMNS[c])],
                  cells |-> [i \in 1..Len(data) |->
                                [c \in 1..Len(OPTIONS_COLUMNS) |->
                                    OptionsCell(data[i], OPTIONS_COLUMNS[c])]]])

\* AlphaVantageAPIHandler.get_historical_options(symbol, date, datatype): it calls
\* self.send_request(function=..., request_args=..., data_key=data_key, **kwargs), and a
\* keyword send_request does not declare raises TypeError at the call.
get_historical_options(symbol, date, datatype, answer) ==
    IF "data_key" \notin send_request_params THEN Ended(Raise("TypeError"), <<>>, FALSE)
    ELSE IF answer.kind = "None" THEN Ended(ReturnNone, <<"send_request">>, FALSE)
    ELSE IF answer.kind = "raise" THEN Ended(answer, <<"send_request">>, FALSE)
    ELSE Ended(options_to_df(answer.value), <<"send_request">>, TRUE)

\* A contract record as the vendor sends it.
Contract(id, type, strike) ==
    <<(<<"contractID", id>>), (<<"symbol", <<"IBM">>>>), (<<"expiration", Key_2024_01_02>>),
      (<<"strike", strike>>), (<<"type", type>>), (<<"last", <<"1">>>>), (<<"mark", <<"1">>>>),
      (<<"bid", <<"1">>>>), (<<"bid_size", <<"5">>>>), (<<"ask", <<"2">>>>),
      (<<"ask_size", <<"7">>>>), (<<"volume", <<"0">>>>), (<<"open_interest", <<"3">>>>),
      (<<"date", Key_2024_01_01>>), (<<"implied_volatility", <<"1">>>>), (<<"delta", <<"1">>>>),
      (<<"gamma", <<"0">>>>), (<<"theta", <<"0">>>>), (<<"vega", <<"0">>>>), (<<"rho", <<"0">>>>)>>

Contracts ==
    {Contract(<<"IBM240102C00100000">>, <<"call">>, <<"1", "0", "0">>),
     Contract(<<"IBM240102P00100000">>, <<"put">>, <<"1", "0", "0">>),
     Contract(<<"IBM240102C00105000">>, <<"call">>, <<"n", "/", "a">>)}

\* What send_request can hand back for HISTORICAL_OPTIONS: None, an exception, records.
OptionsAnswers ==
    {ReturnNone, Raise("JSONDecodeError")}
    \cup {ReturnData(<<a>>) : a \in Contracts}
    \cup {ReturnData(<<a, b>>) : a, b \in Contracts}

OptionDates == {None, <<"2017-11-15">>}

\* handler.get_historical_options(symbol, date)
GetHistoricalOptions(symbol, date, answer) ==
    /\ pc = "idle"
    /\ handler_call = NoHandlerCall
    /\ handler_call' = [method |-> "get_historical_options", args |-> <<symbol, date>>]
    /\ api_answer' = answer
    /\ handler_result' = get_historical_options(symbol, date, <<"json">>, answer)
    /\ UNCHANGED <<client, locals, pool, pc, files, now, calls>>

\* The shaping method is over.
HandlerReturn ==
    /\ handler_call # NoHandlerCall
    /\ handler_call' = NoHandlerCall
    /\ api_answer' = Pending
    /\ handler_result' = NoHandlerResult
    /\ UNCHANGED <<client, locals, pool, pc, files, now, calls>>

NextShape ==
    \/ \E cd \in Payloads : CandleDataToDf(cd)
    \/ \E ctf \in CandleTimeframes, kw \in KwargsChoices, a \in Answers :
          GetCandles(ctf, "full", kw, a)
    \/ \E d \in OptionDates, a \in OptionsAnswers : GetHistoricalOptions(<<"IBM">>, d, a)
    \/ HandlerReturn

SpecShape == Init /\ [][NextShape]_vars

\* ------------------------------------------- the thread pool of the tests
\* What a pool step leaves alone: the single-caller call and the shaping layer.
single == <<call, function, request_args, save_result, request_url, requested, response,
            response_data, wrote, outcome, pc, calls>>
shaping == <<handler_call, api_answer, handler_result>>

\* The calls test_get_time_series_parallel submits: <<function, required, optional>>; it
\* leaves save_result at its default, True.
PoolCalls ==
    {<<(<<"TIME_SERIES_DAILY">>), <<Param("symbol", <<"IBM">>)>>,
       <<Param("outputsize", <<"full">>), Param("datatype", None)>>>>,
     <<(<<"TIME_SERIES_INTRADAY">>),
       <<Param("symbol", <<"IBM">>), Param("interval", <<"5min">>)>>,
       <<Param("adjusted", None), Param("extended_hours", None), Param("month", None),
         Param("outputsize", None), Param("datatype", None)>>>>}

IntradayBody ==
    [received |-> TRUE, is_json |-> TRUE,
     data |-> ("Meta Data" :> <<"meta">>) @@ ("Time Series (5min)" :> <<"series">>)]

\* What the vendor can answer to a GET of url: the series of the function the URL names,
\* a rate-limit note, a body that is no JSON.
SeriesOf(url) ==
    IF Len(url) >= 4 /\ url[4] = "TIME_SERIES_DAILY" THEN SuccessBody
    ELSE IF Len(url) >= 4 /\ url[4] = "TIME_SERIES_INTRADAY" THEN IntradayBody
    ELSE ErrorOnly
VendorAnswers(url) == {SeriesOf(url), InformationOnly, NotJson}

\* A variant in which request_url is one field of the client that the first thread wrote.
UrlOfFirstThread(t) == th_url[1]

\* request_url is a local of _send_request: each thread has its own.
UrlOfThread(t) == th_url[t]

\* executor.submit(getattr(av_handler, method), **kwargs): thread t enters the endpoint
\* method and _send_request up to the GET.
PoolSubmit(t, c, sr) ==
    /\ th_pc[t] = "idle"
    /\ LET args == ReqFragments(c[2]) \o OptFragments(c[3]) IN
       /\ th_call' = [th_call EXCEPT ![t] = <<c[1], args, sr>>]
       /\ IF PyIn(CsvFragment, args)
          THEN /\ th_outcome' = [th_outcome EXCEPT ![t] = Raise("NotImplementedError")]
               /\ th_url' = th_url
               /\ th_pc' = [th_pc EXCEPT ![t] = "done"]
          ELSE /\ th_outcome' = th_outcome
               /\ th_url' = [th_url EXCEPT ![t] = BuildUrl(c[1], args, api_key)]
               /\ th_pc' = [th_pc EXCEPT ![t] = "get"]
    /\ UNCHANGED <<client, single, shaping, th_response, th_data, th_wrote, log, files, now>>

\* requests.get raises in thread t.
PoolGetFails(t) ==
    /\ th_pc[t] = "get"
    /\ log' = Append(log, LogRecord("ERROR", <<"Request got generic error '", "#exception", "'">>))
    /\ th_outcome' = [th_outcome EXCEPT ![t] = ReturnNone]
    /\ th_pc' = [th_pc EXCEPT ![t] = "done"]
    /\ UNCHANGED <<client, single, shaping, th_call, th_url, th_response, th_data, th_wrote,
                   files, now>>

\* requests.get returns in thread t what the vendor answers to the URL the thread asks for.
PoolGet(t) ==
    /\ th_pc[t] = "get"
    /\ \E r \in VendorAnswers(UrlOfThread(t)) : th_response' = [th_response EXCEPT ![t] = r]
    /\ log' = Append(log, LogRecord("DEBUG", <<"'">> \o th_call[t][1] \o <<"' Payload size: ", "#size", ".">>))
    /\ th_pc' = [th_pc EXCEPT ![t] = "json"]
    /\ UNCHANGED <<client, single, shaping, th_call, th_url, th_data, th_wrote, th_outcome,
                   files, now>>

PoolJson(t) ==
    /\ th_pc[t] = "json"
    /\ IF th_response[t].is_json
       THEN /\ th_data' = [th_data EXCEPT ![t] = th_response[t].data]
            /\ th_outcome' = th_outcome
            /\ th_pc' = [th_pc EXCEPT ![t] = PcAfterJson(th_call[t][3])]
       ELSE /\ th_data' = th_data
            /\ th_outcome' = [th_outcome EXCEPT ![t] = Raise("JSONDecodeError")]
            /\ th_pc' = [th_pc EXCEPT ![t] = "done"]
    /\ UNCHANGED <<client, single, shaping, th_call, th_url, th_response, th_wrote, log,
                   files, now>>

\* Thread t reads the clock and writes its archive file into the shared directory.
PoolSave(t) ==
    /\ th_pc[t] = "save"
    /\ \E ts \in now..MaxTime :
          LET path == ArchivePath(ArchiveName(ts, th_call[t][1], th_call[t][2])) IN
          /\ now' = ts
          /\ files' = (path :> th_data[t]) @@ files
          /\ th_wrote' = [th_wrote EXCEPT ![t] = Append(@, path)]
    /\ th_pc' = [th_pc EXCEPT ![t] = "classify"]
    /\ UNCHANGED <<client, single, shaping, th_call, th_url, th_response, th_data, th_outcome,
                   log>>

PoolSaveFails(t) ==
    /\ th_pc[t] = "save"
    /\ \E ts \in now..MaxTime : now' = ts
    /\ th_outcome' = [th_outcome EXCEPT ![t] = Raise("OSError")]
    /\ th_pc' = [th_pc EXCEPT ![t] = "done"]
    /\ UNCHANGED <<client, single, shaping, th_call, th_url, th_response, th_data, th_wrote,
                   log, files>>

PoolClassify(t) ==
    /\ th_pc[t] = "classify"
    /\ th_outcome' = [th_outcome EXCEPT ![t] = ClassifyOutcome(th_data[t])]
    /\ log' = log \o ClassifyLog(th_data[t], UrlOfThread(t), api_key)
    /\ th_pc' = [th_pc EXCEPT ![t] = PcAfterClassify(ClassifyOutcome(th_data[t]))]
    /\ UNCHANGED <<client, single, shaping, th_call, th_url, th_response, th_data, th_wrote,
                   files, now>>

NextPool ==
    \/ \E t \in Threads, c \in PoolCalls : PoolSubmit(t, c, TRUE)
    \/ \E t \in Threads : PoolGetFails(t)
    \/ \E t \in Threads : PoolGet(t)
    \/ \E t \in Threads : PoolJson(t)
    \/ \E t \in Threads : PoolSave(t)
    \/ \E t \in Threads : PoolSaveFails(t)
    \/ \E t \in Threads : PoolClassify(t)

\* handler = AlphaVantageAPIHandler("demo")
InitPool == Init /\ api_key = demo

SpecPool == InitPool /\ [][NextPool]_vars

\* ================================================================ claims
IsEndpointCall == call.method \notin {"", "_send_request", "__str__"}
InSendRequest == call.method \notin {"", "__str__"}

\* The caller passed datatype="csv" to an endpoint method.
DatatypeIsCsv ==
    \E i \in 1..Len(call.optional) :
        PName(call.optional[i]) = "datatype" /\ PValue(call.optional[i]) = <<"csv">>

\* The GET of the call in progress raised.
GetRaised == pc = "done" /\ InSendRequest /\ Len(requested) >= 1 /\ ~response.received

\* C1: a call of _send_request whose parsed response has exactly one key, "Information"
\* or "Error Message", returns None and does not raise, whatever save_result is.
C1_SoftErrorEnvelopeReturnsNone ==
    (/\ pc = "done"
     /\ InSendRequest
     /\ response.is_json
     /\ DOMAIN response.data \in {{"Information"}, {"Error Message"}})
    => outcome = ReturnNone

\* C2: an endpoint call with datatype="csv" raises NotImplementedError at once: no GET is
\* issued and no archive file is written in that call.
C2_CsvFailsBeforeAnyRequest ==
    (IsEndpointCall /\ DatatypeIsCsv)
    => (outcome = Raise("NotImplementedError") /\ requested = <<>> /\ wrote = <<>>)

\* C3: when the GET raises, the call returns None, does not raise, writes no archive file
\* and classifies nothing (no response was parsed, only the error is logged).
C3_TransportFailureReturnsNone ==
    GetRaised
    => (/\ outcome = ReturnNone
        /\ wrote = <<>>
        /\ response_data = <<>>
        /\ Len(requested) = 1
        /\ \A i \in 1..Len(log) : log[i].level = "ERROR")

C3_Witness == GetRaised /\ save_result

\* C4: when the GET succeeds and the body is no JSON, the call returns None and does not
\* raise.
C4_UnparsableBodyReturnsNone ==
    (pc = "done" /\ InSendRequest /\ response.received /\ ~response.is_json)
    => outcome = ReturnNone

\* C5: with save_result on, a call ends as it would have ended without the archive write,
\* also when the write fails: the parsed response on success, None on a soft error, and no
\* exception from the write.
C5_ArchiveFailureDoesNotFailCall ==
    (pc = "done" /\ InSendRequest /\ save_result /\ response.received /\ response.is_json)
    => outcome = ClassifyOutcome(response.data)

\* C6: a call issues at most one GET, and once it has an outcome (a soft error and a
\* transport failure included) it is over: nothing is sent again.
C6_AtMostOneGetPerCall ==
    /\ Len(requested) <= 1
    /\ outcome # Pending => pc = "done"

C6_Witness ==
    /\ pc = "done"
    /\ InSendRequest
    /\ outcome = ReturnNone
    /\ response.received
    /\ Len(requested) = 1

C8_RequiredParamsCarryCallerValue ==
    IsEndpointCall
    => \A i \in 1..Len(call.required) :
          /\ i <= Len(request_args)
          /\ request_args[i] = <<PName(call.required[i]), "=">> \o PValue(call.required[i])

\* C9: for every optional parameter p of an endpoint method, the argument list holds the
\* fragment "p=<value>" once when the caller supplied p and no fragment for p when the
\* caller left it absent; the supplied ones follow the required ones in declared order.
C9_OptionalParamsPresentOrAbsent ==
    IsEndpointCall
    => LET Given(p) == PValue(p) # None
           supplied == SelectSeq(call.optional, Given)
           rest == SubSeq(request_args, Len(call.required) + 1, Len(request_args))
           Of(name) == {k \in 1..Len(request_args) :
                           /\ Len(request_args[k]) >= 2
                           /\ request_args[k][1] = name
                           /\ request_args[k][2] = "="}
       IN  /\ Len(rest) = Len(supplied)
           /\ \A i \in 1..Len(supplied) :
                 rest[i] = <<PName(supplied[i]), "=">> \o PValue(supplied[i])
           /\ \A j \in 1..Len(call.optional) :
                 Cardinality(Of(PName(call.optional[j]))) = IF Given(call.optional[j]) THEN 1 ELSE 0

C9_Witness ==
    /\ IsEndpointCall
    /\ pc = "done"
    /\ \E i, j \in 1..Len(call.optional) :
          i < j /\ PValue(call.optional[i]) = None /\ PValue(call.optional[j]) # None
    /\ \E i, j \in 1..Len(call.optional) :
          i < j /\ PValue(call.optional[i]) # None /\ PValue(call.optional[j]) # None

\* The first characters of key (two, or all when it has fewer), dots dots, the last
\* characters of key (two, or all when it has fewer).
ObfuscatedForm(key, dots) ==
    LET n == Len(key)
        a == IF n < 2 THEN n ELSE 2
    IN  [i \in 1..(2 * a + dots) |->
            IF i <= a THEN key[i]
            ELSE IF i <= a + dots THEN "."
            ELSE key[n - a + (i - a - dots)]]

ShownKey(dots) == IF api_key = <<"d", "e", "m", "o">> THEN api_key ELSE ObfuscatedForm(api_key, dots)

\* The string form of the client and the record logged at construction show the key as
\* ShownKey(dots).
KeyShownWith(dots) ==
    /\ (pc = "done" /\ call.method = "__str__")
       => outcome.value = <<"AlphaVantageAPIHandler(api_key=">> \o ShownKey(dots) \o <<")">>
    /\ (pc = "idle" /\ calls = 0)
       => log = <<LogRecord("DEBUG",
                    <<"Created ", "AlphaVantageAPIHandler(api_key=">> \o ShownKey(dots) \o <<")">>)>>

\* C10 as amended: obfuscate_api_key returns "demo" unchanged and for every other key its
\* first two characters, then three dots, then its last two characters (a key shorter than
\* two characters gives all its characters on either side).
C10_ObfuscationThreeDots == KeyShownWith(3)

C10_Witness ==
    /\ pc = "done"
    /\ call.method = "__str__"
    /\ Len(api_key) = 3
    /\ api_key[1] # api_key[3]

\* C10 as stated: obfuscate_api_key returns "demo" unchanged and for every other key its
\* first two characters, then "..", then its last two characters.
C10_ObfuscationTwoDots == KeyShownWith(2)

\* ----------------------------------------------------- shaping-layer claims
\* A table was returned by the shaping method in progress.
ReturnedTable == handler_result.out.kind = "data"
Table == handler_result.out.value

\* C11: the rows of a returned time-series table are in strictly ascending timestamp
\* order, whatever the order of the keys in the vendor payload.
C11_RowsStrictlyAscending ==
    ReturnedTable
    => \A i \in 1..(Len(Table.index) - 1) : TsLess(Table.index[i][2], Table.index[i + 1][2])

\* The payload the normalizer was given: the argument of a direct call, else the series of
\* the envelope the endpoint answered.
GivenPayload ==
    IF handler_call.method = "_candle_data_to_df" THEN handler_call.args[1]
    ELSE api_answer.value[CHOOSE k \in DOMAIN api_answer.value : k # <<"Meta Data">>]

\* The cell of row i of the returned table in the column called name.
CellOf(i, name) ==
    Table.cells[i][CHOOSE c \in 1..Len(Table.columns) : Table.columns[c] = name]

\* Low <= Open <= High and Low <= Close <= High in row i of the returned table.
RowOrdered(i) ==
    /\ \A n \in {"Open", "High", "Low", "Close"} :
          PyIn(n, Table.columns) /\ CellOf(i, n)[1] = "float32"
    /\ CellOf(i, "Low")[2] <= CellOf(i, "Open")[2]
    /\ CellOf(i, "Open")[2] <= CellOf(i, "High")[2]
    /\ CellOf(i, "Low")[2] <= CellOf(i, "Close")[2]
    /\ CellOf(i, "Close")[2] <= CellOf(i, "High")[2]

\* The number the vendor sent under label in row.
VendorValue(row, label) == ParseInt(Lookup(row, label)[2])

\* The same relation on the numbers the vendor sent.
VendorRowOrdered(row) ==
    /\ \A l \in {"1. open", "2. high", "3. low", "4. close"} :
          Lookup(row, l) # NaN /\ IsNumeral(Lookup(row, l)[2])
    /\ VendorValue(row, "3. low") <= VendorValue(row, "1. open")
    /\ VendorValue(row, "1. open") <= VendorValue(row, "2. high")
    /\ VendorValue(row, "3. low") <= VendorValue(row, "4. close")
    /\ VendorValue(row, "4. close") <= VendorValue(row, "2. high")

\* C12 as amended: the normalizer validates nothing: row i of the returned table holds the
\* open, high, low and close the vendor sent in row i, cast to 32-bit floats, so it satisfies
\* Low <= Open <= High and Low <= Close <= High whenever the vendor's row does.
C12_VendorOrderIsKept ==
    (ReturnedTable /\ Len(Table.cells) > 0)
    => \A i \in 1..Len(Table.cells) :
          LET row == GivenPayload[i][2] IN
          /\ CellOf(i, "Open") = F32Cell(Float32(VendorValue(row, "1. open")))
          /\ CellOf(i, "High") = F32Cell(Float32(VendorValue(row, "2. high")))
          /\ CellOf(i, "Low") = F32Cell(Float32(VendorValue(row, "3. low")))
          /\ CellOf(i, "Close") = F32Cell(Float32(VendorValue(row, "4. close")))
          /\ VendorRowOrdered(row) => RowOrdered(i)

\* A table with a row the cast has rounded and a row the vendor sent in order.
C12_Witness ==
    /\ ReturnedTable
    /\ Len(Table.cells) = 2
    /\ \E i \in 1..2 : CellOf(i, "Open")[2] # VendorValue(GivenPayload[i][2], "1. open")
    /\ \E i \in 1..2 : VendorRowOrdered(GivenPayload[i][2]) /\ CellOf(i, "High")[2] = 4

\* C12 as stated: every row of a returned time-series table satisfies
\* Low <= Open <= High and Low <= Close <= High.
C12_EveryRowOrdered ==
    ReturnedTable => \A i \in 1..Len(Table.cells) : RowOrdered(i)

\* The dtype of the column called name of the returned table.
DtypeOf(name) == Table.dtypes[CHOOSE c \in 1..Len(Table.columns) : Table.columns[c] = name]

\* C13: a returned time-series table, one with zero rows included, has a datetime index,
\* float32 Open, High, Low and Close columns (and an int32 Volume when present) and no
\* cell that is still a string.
C13_FixedWidthColumns ==
    ReturnedTable
    => /\ Table.index_dtype = "datetime64"
       /\ \A n \in {"Open", "High", "Low", "Close"} :
             PyIn(n, Table.columns) /\ DtypeOf(n) = "float32"
       /\ PyIn("Volume", Table.columns) => DtypeOf("Volume") = "int32"
       /\ \A i \in 1..Len(Table.cells) : \A c \in 1..Len(Table.columns) :
             Table.cells[i][c][1] # "str"

VendorLabels == {"1. open", "2. high", "3. low", "4. close", "5. volume"}

\* Every row of the payload given carries the five vendor labels, and there is a row.
FiveLabelPayload ==
    /\ handler_call.method \in {"_candle_data_to_df", "get_candles"}
    /\ Len(GivenPayload) > 0
    /\ \A i \in 1..Len(GivenPayload) :
          {GivenPayload[i][2][j][1] : j \in 1..Len(GivenPayload[i][2])} = VendorLabels

ColumnSet == {Table.columns[c] : c \in 1..Len(Table.columns)}

\* C14 as amended: normalizing a payload whose rows carry "1. open", "2. high", "3. low",
\* "4. close" and "5. volume" yields a table whose columns are exactly Open, High, Low and
\* Close, all float32: the volume is discarded, and no vendor-numbered label remains.
C14_VolumeIsDiscarded ==
    (ReturnedTable /\ FiveLabelPayload)
    => /\ Table.columns = <<"Open", "High", "Low", "Close">>
       /\ Table.dtypes = <<"float32", "float32", "float32", "float32">>
       /\ ColumnSet \cap VendorLabels = {}

C14_Witness ==
    /\ ReturnedTable
    /\ FiveLabelPayload
    /\ Len(Table.cells) = 2
    /\ Len(Table.cells[1]) = 4

\* C14 as stated: normalizing such a payload yields the columns Open, High, Low, Close and
\* Volume, with Volume an int32 column, and no vendor-numbered label remains.
C14_VolumeIsKept ==
    (ReturnedTable /\ FiveLabelPayload)
    => /\ ColumnSet = {"Open", "High", "Low", "Close", "Volume"}
       /\ DtypeOf("Volume") = "int32"
       /\ ColumnSet \cap VendorLabels = {}

\* A table in normal form: the canonical columns, a datetime index, float32 values.
AlreadyNormalized(df) ==
    /\ df.columns = <<"Open", "High", "Low", "Close">>
    /\ df.index_dtype = "datetime64"
    /\ \A c \in 1..Len(df.dtypes) : df.dtypes[c] = "float32"

\* C15: the rename and the cast applied to a table that is already normalized return a
\* table equal to their input.
C15_RenameAndCastIdempotent ==
    (ReturnedTable /\ AlreadyNormalized(Table))
    => astype(rename(Table, renamer_map)) = ReturnData(Table)

\* A normalized table with a value the first cast has rounded.
C15_Witness ==
    /\ ReturnedTable
    /\ AlreadyNormalized(Table)
    /\ \E i \in 1..Len(Table.cells) :
          CellOf(i, "Open")[2] # VendorValue(GivenPayload[i][2], "1. open")

\* The normalizer ran on a payload in the call in progress.
Normalized == handler_result.normalized

\* Some field, with a label in labels, of some row of the payload given cannot be cast.
UncastableField(labels) ==
    \E i \in 1..Len(GivenPayload) : \E j \in 1..Len(GivenPayload[i][2]) :
        /\ GivenPayload[i][2][j][1] \in labels
        /\ ~IsNumeral(GivenPayload[i][2][j][2])

\* C16 as amended: if an open, high, low or close field (any field but "5. volume") of any
\* row cannot be cast to float32, the call fails with an exception and returns no table; a
\* returned table has one row per payload row and no string cell.  A volume that cannot be
\* cast is dropped with its column and fails nothing.
C16_UncastablePriceFails ==
    Normalized
    => /\ UncastableField(VendorLabels \ {"5. volume"})
          => handler_result.out = Raise("ValueError")
       /\ ReturnedTable
          => /\ Len(Table.cells) = Len(GivenPayload)
             /\ \A i \in 1..Len(Table.cells) : \A c \in 1..Len(Table.columns) :
                   Table.cells[i][c][1] # "str"

\* A payload whose keys all parse and whose second row has a close that is no number.
C16_Witness ==
    /\ Normalized
    /\ Len(GivenPayload) = 2
    /\ \A i \in 1..2 : ParsesAsTimestamp(GivenPayload[i][1])
    /\ IsNumeral(Lookup(GivenPayload[1][2], "4. close")[2])
    /\ ~IsNumeral(Lookup(GivenPayload[2][2], "4. close")[2])

\* C16 as stated: if any field of any row cannot be cast to its numeric type, the call
\* fails with an exception and no table is returned.
C16_AnyUncastableFieldFails ==
    (Normalized /\ UncastableField(VendorLabels))
    => handler_result.out.kind = "raise"

\* C17: if an outer key of the payload fails to parse as a timestamp, the normalizer raises
\* and returns no table; otherwise, when it returns a table, every outer key is exactly one
\* index entry, the instant it denotes, in the order of the payload.
C17_UnparsableKeyFails ==
    Normalized
    => /\ (\E i \in 1..Len(GivenPayload) : ~ParsesAsTimestamp(GivenPayload[i][1]))
          => handler_result.out = Raise("ValueError")
       /\ ReturnedTable
          => /\ Len(Table.index) = Len(GivenPayload)
             /\ \A i \in 1..Len(GivenPayload) :
                   Table.index[i] = <<"datetime64", Timestamp(GivenPayload[i][1])>>

\* A payload whose values all cast and whose second key is no timestamp.
C17_Witness ==
    /\ Normalized
    /\ Len(GivenPayload) = 2
    /\ ParsesAsTimestamp(GivenPayload[1][1])
    /\ ~ParsesAsTimestamp(GivenPayload[2][1])
    /\ ~UncastableField(VendorLabels)
    /\ handler_result.out.kind = "raise"

\* get_candles was called with a timeframe of the enumeration and the keywords of one
\* asset class.
CandlesCallOfAnAssetClass ==
    /\ handler_call.method = "get_candles"
    /\ handler_call.args[1] \in TfValues
    /\ LET kwargs == handler_call.args[3] IN
       \/ HasKey(kwargs, "symbol")
       \/ HasKey(kwargs, "currency_from") /\ HasKey(kwargs, "currency_to")
       \/ HasKey(kwargs, "crypto") /\ HasKey(kwargs, "currency")

\* C18: for every asset class and timeframe, when the endpoint call answers None (a soft
\* error or a transport failure), get_candles returns None: it does not raise and the
\* normalizer does not run.
C18_NoneFromEndpointIsNone ==
    (CandlesCallOfAnAssetClass /\ api_answer = ReturnNone)
    => (handler_result.out = ReturnNone /\ ~handler_result.normalized)

\* C19: a get_historical_options call that gets well-formed records from the vendor, with or
\* without a date, returns a table indexed by contract identifier whose column set is exactly
\* OPTIONS_COLUMNS, with a boolean is_call that is true exactly for the records of type
\* "call" and without the type column.
C19_OptionsTableShape ==
    (/\ handler_call.method = "get_historical_options"
     /\ api_answer.kind = "data"
     /\ options_to_df(api_answer.value).kind = "data")
    => /\ ReturnedTable
       /\ ColumnSet = {OPTIONS_COLUMNS[c] : c \in 1..Len(OPTIONS_COLUMNS)}
       /\ "type" \notin ColumnSet
       /\ Len(Table.index) = Len(api_answer.value)
       /\ \A i \in 1..Len(api_answer.value) :
             /\ Table.index[i] = Lookup(api_answer.value[i], "contractID")
             /\ CellOf(i, "is_call") = <<"bool", Lookup(api_answer.value[i], "type") = StrCell(<<"call">>)>>

\* ------------------------------------------------------------ pool claims
\* How _send_request ends a call c = <<function, request_args, save_result>> that runs
\* alone, is answered r by the GET and wrote the archive paths w.
AloneOutcome(c, r, w) ==
    IF PyIn(CsvFragment, c[2]) THEN Raise("NotImplementedError")
    ELSE IF ~r.received THEN ReturnNone
    ELSE IF ~r.is_json THEN Raise("JSONDecodeError")
    ELSE IF c[3] /\ w = <<>> THEN Raise("OSError")
    ELSE ClassifyOutcome(r.data)

\* C20: in every interleaving of the calls of the pool, each call gets an answer to the URL
\* of its own arguments and ends as it would end alone with that answer.
C20_SameResultAsAlone ==
    \A t \in Threads :
        th_pc[t] = "done"
        => /\ th_response[t].received
              => th_response[t] \in VendorAnswers(BuildUrl(th_call[t][1], th_call[t][2], api_key))
           /\ th_outcome[t] = AloneOutcome(th_call[t], th_response[t], th_wrote[t])

\* Two calls of different functions both returned data, both archived, and the second
\* thread's response came in first.
C20_Witness ==
    /\ \A t \in {1, 2} : th_pc[t] = "done" /\ th_outcome[t].kind = "data" /\ Len(th_wrote[t]) = 1
    /\ th_call[1][1] # th_call[2][1]
    /\ log[2].msg[2] = th_call[2][1][1]

\* The threads whose call wrote an archive file.
Archivers == {t \in Threads : th_wrote[t] # <<>>}

\* C21: the archive holds one file per archived call and each file is written once: in
\* every interleaving, two different calls never write the same file name, two calls with
\* the same function and arguments that read the same millisecond included.
C21_ArchiveFilesWrittenOnce ==
    /\ \A t, u \in Archivers :
          t # u => \A i \in 1..Len(th_wrote[t]) : ~PyIn(th_wrote[t][i], th_wrote[u])
    /\ Cardinality(DOMAIN files) = Cardinality(Archivers)

\* ------------------------------------------------------- transport claims
\* The call in progress parsed a JSON response that has the key "Error Message" and not
\* the key "Information".
ErrorMessageResponse ==
    /\ pc = "done"
    /\ InSendRequest
    /\ response.is_json
    /\ "Error Message" \in DOMAIN response.data
    /\ "Information" \notin DOMAIN response.data

\* C22: every JSON response that has the key "Error Message" (and not "Information") is a
\* soft error: _send_request returns None for it, whether or not it has other keys.
C22_ErrorMessageReturnsNone == ErrorMessageResponse => outcome = ReturnNone

\* C23: no step of any call, however the call ends (data, None after a soft error or a
\* transport failure, an exception), changes the client: api_key, url_base and url_request
\* keep the values __init__ gave them.
C23_ClientNeverChanges ==
    [][api_key' = api_key /\ url_base' = url_base /\ url_request' = url_request]_vars

\* A call that sent its request with a key of the caller's and archived the answer is over.
C23_Witness == calls >= 1 /\ pc = "idle" /\ files # <<>> /\ api_key # demo

\* The call in progress parsed a JSON response that has the key "Information" and at least
\* one other key.
InformationAndOtherKeys ==
    /\ pc = "done"
    /\ InSendRequest
    /\ response.is_json
    /\ "Information" \in DOMAIN response.data
    /\ Cardinality(DOMAIN response.data) >= 2

\* The call in progress returned None for a response the vendor sent (a soft error).
NoneForSoftError == pc = "done" /\ InSendRequest /\ response.is_json /\ outcome = ReturnNone

\* C24: a JSON response that has "Information" and another key is returned neither as data
\* nor as None: the call stops with an assertion failure.  Hence a call that returns None for
\* a soft error had a response of exactly one key.
C24_InformationWithOtherKeysAsserts ==
    /\ InformationAndOtherKeys => outcome = Raise("AssertionError")
    /\ NoneForSoftError => Cardinality(DOMAIN response.data) = 1

\* ------------------------------------------------- routing and lookup claims
\* The endpoint answered get_candles a success envelope: "Meta Data" and one other key.
MetaDataAndOneOtherKey ==
    /\ CandlesCallOfAnAssetClass
    /\ api_answer.kind = "data"
    /\ <<"Meta Data">> \in DOMAIN api_answer.value
    /\ Cardinality(DOMAIN api_answer.value) = 2

\* C25: for a success envelope of "Meta Data" and exactly one other key, the shaping layer
\* takes the other key's value as the payload, whatever the key's name, and no lookup fails:
\* the call ends as the normalizer ends on that value.
C25_PayloadUnderTheOtherKey ==
    MetaDataAndOneOtherKey
    => /\ handler_result.normalized
       /\ handler_result.out = candle_data_to_df(GivenPayload)

\* ------------------------------------------------------------ archive claims
\* The GET and the JSON parse of the call in progress both succeeded.
GetAndParseSucceeded == response.received /\ response.is_json

\* C26 as amended: a call writes an archive file only if save_result is on and the GET and
\* the parse both succeeded, and it writes at most one, holding the parsed response.  The
\* write is attempted before the classification: when the classification starts the file is
\* there, so data, soft-error and assertion-failing responses are archived alike; when the
\* write fails no file is written and the call raises unclassified.  With save_result off
\* no file is written.
C26_ArchiveWrittenBeforeClassification ==
    /\ wrote # <<>>
       => /\ save_result /\ GetAndParseSucceeded
          /\ Len(wrote) = 1
          /\ wrote[1] \in DOMAIN files
          /\ files[wrote[1]] = response_data
    /\ pc = "classify" => (outcome = Pending /\ (save_result => Len(wrote) = 1))
    /\ (pc = "done" /\ save_result /\ GetAndParseSucceeded)
       => (Len(wrote) = 1 \/ (wrote = <<>> /\ outcome = Raise("OSError")))
    /\ ~save_result => wrote = <<>>

\* A soft error that was archived before it was classified.
C26_Witness == pc = "done" /\ save_result /\ Len(wrote) = 1 /\ outcome = ReturnNone

\* C26 as stated: a call writes an archive file if and only if save_result is on and the
\* GET and the JSON parse both succeeded.
C26_ArchiveWrittenIffEnabledAndParsed ==
    (pc = "done" /\ InSendRequest)
    => (wrote # <<>> <=> (save_result /\ GetAndParseSucceeded))

\* The values of the minute and hour members of the enumeration.
IntradayValues == {AV_CANDLE_TF[m] : m \in {"MIN", "MIN5", "MIN15", "MIN30", "HOUR"}}

\* get_candles was called for a stock symbol with an intraday timeframe and no month.
StockIntradayWithoutMonth ==
    /\ handler_call.method = "get_candles"
    /\ handler_call.args[1] \in IntradayValues
    /\ Names(handler_call.args[3]) = {"symbol"}

\* C27: get_candles for a stock symbol with an intraday timeframe and month left out does
\* not raise because of the argument left out: it goes on to the intraday endpoint.
C27_OmittedMonthIsAccepted ==
    StockIntradayWithoutMonth
    => handler_result.called = <<"get_candles_stocks", "get_time_series_intraday">>

\* get_candles was called with a timeframe of the enumeration.
CandlesCall == handler_call.method = "get_candles" /\ handler_call.args[1] \in TfValues

\* The first method the call in progress handed itself to.
Selected(method) == Len(handler_result.called) >= 1 /\ handler_result.called[1] = method

\* C28: get_candles picks the asset class from its keywords before any request: symbol
\* picks stocks (also next to currency or crypto keywords), else currency_from with
\* currency_to picks forex, else crypto with currency picks crypto; any other combination
\* raises ValueError and no method that sends a request is entered.
C28_AssetClassFromKeywords ==
    CandlesCall
    => LET kwargs == handler_call.args[3]
           stock == HasKey(kwargs, "symbol")
           forex == HasKey(kwargs, "currency_from") /\ HasKey(kwargs, "currency_to")
           crypto == HasKey(kwargs, "crypto") /\ HasKey(kwargs, "currency")
       IN  /\ stock => Selected("get_candles_stocks")
           /\ (~stock /\ forex) => Selected("get_candles_forex")
           /\ (~stock /\ ~forex /\ crypto) => Selected("get_candles_crypto")
           /\ (~stock /\ ~forex /\ ~crypto)
              => (handler_result.out = Raise("ValueError") /\ handler_result.called = <<>>)

\* A call with symbol next to the crypto keywords went to get_candles_stocks.
C28_Witness ==
    /\ CandlesCall
    /\ Names(handler_call.args[3]) = {"symbol", "crypto", "currency"}
    /\ Selected("get_candles_stocks")

\* The endpoint method of each asset class for the monthly, weekly, daily and intraday
\* timeframes, in this order.
EndpointsOf ==
    [STOCK |-> <<"get_time_series_monthly", "get_time_series_weekly",
                 "get_time_series_daily", "get_time_series_intraday">>,
     FOREX |-> <<"get_fx_monthly", "get_fx_weekly", "get_fx_daily", "get_fx_intraday">>,
     CRYPTO |-> <<"get_digital_currency_monthly", "get_digital_currency_weekly",
                  "get_digital_currency_daily", "get_crypto_intraday">>]

\* The endpoint a timeframe belongs to: "1month" monthly, "1week" weekly, "1day" daily, the
\* minute and hour members intraday.
ExpectedEndpoint(type, ctf) ==
    EndpointsOf[type][IF ctf = "1month" THEN 1
                      ELSE IF ctf = "1week" THEN 2
                      ELSE IF ctf = "1day" THEN 3
                      ELSE 4]

\* get_candles was called with a member of the enumeration and the keywords of an asset
\* class, month included when the call is a stock intraday call.
RoutableCall ==
    /\ CandlesCall
    /\ candle_type(handler_call.args[3]) # "unsupported"
    /\ (candle_type(handler_call.args[3]) = "STOCK" /\ handler_call.args[1] \in IntradayValues)
       => HasKey(handler_call.args[3], "month")

\* C29: for every member of AV_CANDLE_TF, get_candles_stocks, get_candles_forex and
\* get_candles_crypto each go to exactly one endpoint and do not fail before it: the monthly
\* member to the monthly endpoint, the weekly to the weekly, the daily to the daily, each
\* minute or hour member to the intraday endpoint.
C29_EveryTimeframeRoutes ==
    RoutableCall
    => LET type == candle_type(handler_call.args[3]) IN
       handler_result.called = <<CandlesMethod[type], ExpectedEndpoint(type, handler_call.args[1])>>

\* ------------------------------------------------------------- key claims
\* text holds key as a run of consecutive characters.
Contains(text, key) ==
    \E i \in 1..(Len(text) - Len(key) + 1) : SubSeq(text, i, i + Len(key) - 1) = key

\* The record the classification logs for a success: the obfuscated request URL in quotes.
IsSentRecord(r) == r.level = "DEBUG" /\ r.msg[1] = "Successfuly sent request '"

\* C30: for every key other than "demo", nothing logged and no archive name shows the full
\* key: not the client's string form (returned or logged at construction), keys of four
\* characters or fewer included, not the logged request URL, which ends with the obfuscated
\* apikey fragment, and not the name of an archive file.
C30_NothingShowsTheFullKey ==
    (api_key # demo /\ api_key # <<>>)
    => /\ \A i \in 1..Len(log) : ~Contains(log[i].msg, api_key)
       /\ (pc = "done" /\ call.method = "__str__") => ~Contains(outcome.value, api_key)
       /\ \A i \in 1..Len(log) :
             IsSentRecord(log[i])
             => LET msg == log[i].msg
                    n == Len(obfuscate_api_key(api_key))
                IN  /\ Len(msg) >= n + 3
                    /\ SubSeq(msg, Len(msg) - n - 2, Len(msg))
                          = <<"&", "apikey=">> \o obfuscate_api_key(api_key) \o <<"'">>
                    /\ Cardinality({k \in 1..Len(msg) : msg[k] = "apikey="}) = 1
       /\ \A path \in DOMAIN files : ~Contains(path, api_key)

====
